---- MODULE Spec2Model ----
(***************************************************************************)
(* Model of rust/src/api/simple.rs: the synchronous greet, the init_app    *)
(* hook and the asynchronous greet_with_delay, the latter run as tasks of  *)
(* a cooperative runtime with a discrete clock that counts seconds.        *)
(*                                                                         *)
(* A text value is a sequence of characters, each character a string of    *)
(* length one, so that format! is concatenation of the template's literal  *)
(* pieces with the argument.                                               *)
(***************************************************************************)
EXTENDS Integers, Sequences, FiniteSets, TLC

VARIABLES calls, now, greetCall, initCalls

vars == <<calls, now, greetCall, initCalls>>

---------------------------------------------------------------------------
(* Bounds of the model. *)

\* number of greet_with_delay invocations in one run
MaxCalls == 2
\* the clock stops at MaxTime seconds
MaxTime == 3
\* number of init_app calls in one run
MaxInit == 2
\* longest name built from WideAlphabet for the synchronous model
MaxWideLen == 3

WideAlphabet == {"a", "!", " "}

World == <<"W", "o", "r", "l", "d">>

RECURSIVE SeqsUpTo(_, _)
SeqsUpTo(S, k) ==
    IF k = 0 THEN {<<>>}
    ELSE LET shorter == SeqsUpTo(S, k - 1)
         IN  shorter \cup {Append(s, x) : s \in shorter, x \in S}

\* names passed in the task model: the empty name and "World"
Names == {<<>>, World}
\* names passed in the synchronous model
WideNames == SeqsUpTo(WideAlphabet, MaxWideLen) \cup {World}

CallIds == 1..MaxCalls

---------------------------------------------------------------------------
(* The format! templates, as their literal pieces. *)

\* "Hello, "
Hello == <<"H", "e", "l", "l", "o", ",", " ">>

\* "! This is from Rust!"
FromRust ==
    <<"!", " ", "T", "h", "i", "s", " ", "i", "s", " ",
      "f", "r", "o", "m", " ", "R", "u", "s", "t", "!">>

\* "! This delayed (async) greeting is from Rust!"
DelayedFromRust ==
    <<"!", " ", "T", "h", "i", "s", " ",
      "d", "e", "l", "a", "y", "e", "d", " ",
      "(", "a", "s", "y", "n", "c", ")", " ",
      "g", "r", "e", "e", "t", "i", "n", "g", " ",
      "i", "s", " ", "f", "r", "o", "m", " ", "R", "u", "s", "t", "!">>

\* Duration::from_secs(2)
DelaySecs == 2

---------------------------------------------------------------------------
(* greet: format!("Hello, {name}! This is from Rust!") *)

\* faulty variant: init_app changes the greeting
greetAfterInit(name) ==
    IF initCalls > 0 THEN Hello \o name \o <<"!">> ELSE Hello \o name \o FromRust

\* faulty variant: the empty name is rejected
greetRejectsEmpty(name) ==
    IF name = <<>> THEN <<"Err">> ELSE Hello \o name \o FromRust

\* faulty variant: greet uses the delayed template
greetSwapsTemplate(name) == Hello \o name \o DelayedFromRust

greet(name) == Hello \o name \o FromRust

(* greet_with_delay, after the await:                                      *)
(* format!("Hello, {name}! This delayed (async) greeting is from Rust!")   *)

\* faulty variant: the delayed greeting uses greet's template
greet_with_delay_copied(name) == Hello \o name \o FromRust

\* faulty variant: the output depends on when the call resolves
greet_with_delay_clocked(name) ==
    Hello \o name \o (IF now > DelaySecs THEN FromRust ELSE DelayedFromRust)

greet_with_delay(name) == Hello \o name \o DelayedFromRust

\* tokio::time::sleep(d): the Sleep's deadline is the clock's now plus d
SleepDeadline(t) == t + DelaySecs

---------------------------------------------------------------------------
(* State *)

NoGreet == [valid |-> FALSE, name |-> <<>>, out |-> <<>>, inits |-> 0, at |-> 0]

IdleCall == [pc |-> "idle", name |-> <<>>, started |-> 0, deadline |-> 0, out |-> <<>>]

Init ==
    /\ calls = [c \in CallIds |-> IdleCall]
    /\ now = 0
    /\ greetCall = NoGreet
    /\ initCalls = 0

\* the name held by the most recently started call
LatestName ==
    LET started == {c \in CallIds : calls[c].pc # "idle"}
    IN  calls[CHOOSE c \in started : \A d \in started : d <= c].name

---------------------------------------------------------------------------
(* Operations *)

\* faulty variant: greet runs the setup of init_app itself
CallGreetInits(n) ==
    /\ greetCall' = [valid |-> TRUE, name |-> n, out |-> greet(n),
                     inits |-> initCalls, at |-> now]
    /\ initCalls' = IF initCalls < MaxInit THEN initCalls + 1 ELSE initCalls
    /\ UNCHANGED <<calls, now>>

\* greet(name), called and returned in one step. greetCall keeps the latest
\* call: its argument, its return value, and the number of init_app calls
\* and the time before it.
CallGreet(n) ==
    /\ greetCall' = [valid |-> TRUE, name |-> n, out |-> greet(n),
                     inits |-> initCalls, at |-> now]
    /\ UNCHANGED <<calls, now, initCalls>>

\* faulty variant: init_app drops the suspended tasks
init_app_drops_tasks ==
    /\ initCalls < MaxInit
    /\ initCalls' = initCalls + 1
    /\ calls' = [c \in CallIds |->
                    IF calls[c].pc = "sleeping"
                    THEN [calls[c] EXCEPT !.pc = "dropped"] ELSE calls[c]]
    /\ UNCHANGED <<now, greetCall>>

\* init_app(): one more setup_default_user_utils() has run
init_app ==
    /\ initCalls < MaxInit
    /\ initCalls' = initCalls + 1
    /\ UNCHANGED <<calls, now, greetCall>>

\* faulty variant: a sleep that blocks the runtime, so no call starts while one sleeps
StartBlocking(c, n) ==
    /\ calls[c].pc = "idle"
    /\ \A d \in CallIds : d < c => calls[d].pc # "idle"
    /\ \A d \in CallIds : calls[d].pc # "sleeping"
    /\ now + DelaySecs <= MaxTime
    /\ calls' = [calls EXCEPT ![c] =
                    [pc |-> "sleeping", name |-> n, started |-> now,
                     deadline |-> SleepDeadline(now), out |-> <<>>]]
    /\ UNCHANGED <<now, greetCall, initCalls>>

\* greet_with_delay(n) is invoked as the c-th call and runs to its await:
\* the task owns name and a Sleep with its deadline. Invocation and first
\* poll are one step of the clock, which counts whole seconds; the guard on
\* MaxTime keeps every deadline within the clock's range.
Start(c, n) ==
    /\ calls[c].pc = "idle"
    /\ \A d \in CallIds : d < c => calls[d].pc # "idle"
    /\ now + DelaySecs <= MaxTime
    /\ calls' = [calls EXCEPT ![c] =
                    [pc |-> "sleeping", name |-> n, started |-> now,
                     deadline |-> SleepDeadline(now), out |-> <<>>]]
    /\ UNCHANGED <<now, greetCall, initCalls>>

\* faulty variant: the sleep is not awaited
ResumeEarly(c) ==
    /\ calls[c].pc = "sleeping"
    /\ calls' = [calls EXCEPT ![c].pc = "done",
                              ![c].out = greet_with_delay(calls[c].name)]
    /\ UNCHANGED <<now, greetCall, initCalls>>

\* faulty variant: the name is kept in a place all calls share
ResumeShared(c) ==
    /\ calls[c].pc = "sleeping"
    /\ now >= calls[c].deadline
    /\ calls' = [calls EXCEPT ![c].pc = "done",
                              ![c].out = greet_with_delay(LatestName)]
    /\ UNCHANGED <<now, greetCall, initCalls>>

\* the Sleep has elapsed: the task is polled again and resolves
Resume(c) ==
    /\ calls[c].pc = "sleeping"
    /\ now >= calls[c].deadline
    /\ calls' = [calls EXCEPT ![c].pc = "done",
                              ![c].out = greet_with_delay(calls[c].name)]
    /\ UNCHANGED <<now, greetCall, initCalls>>

\* one second passes on the runtime's clock
Tick ==
    /\ now < MaxTime
    /\ now' = now + 1
    /\ UNCHANGED <<calls, greetCall, initCalls>>

Next ==
    \/ \E n \in Names : CallGreet(n)
    \/ init_app
    \/ \E c \in CallIds, n \in Names : Start(c, n)
    \/ \E c \in CallIds : Resume(c)
    \/ Tick

Spec == Init /\ [][Next]_vars

\* the runtime polls a task whose timer has fired, and the clock advances
FairSpec ==
    /\ Init
    /\ [][Next]_vars
    /\ WF_vars(Tick)
    /\ \A c \in CallIds : WF_vars(Resume(c))

\* the synchronous operations alone, over a wider set of names
PureNext ==
    \/ \E n \in WideNames : CallGreet(n)
    \/ init_app

PureSpec == Init /\ [][PureNext]_vars

---------------------------------------------------------------------------
(* Properties *)

Range(s) == {s[i] : i \in DOMAIN s}

\* the characters a greeting of the model is made of
Char ==
    Range(Hello) \cup Range(FromRust) \cup Range(DelayedFromRust)
        \cup Range(World) \cup WideAlphabet

IsText(s) == \A i \in DOMAIN s : s[i] \in Char

Resolved == {c \in CallIds : calls[c].pc = "done"}
Sleeping == {c \in CallIds : calls[c].pc = "sleeping"}

\* C1: greet(n) is "Hello, " followed by n followed by "! This is from
\* Rust!", with n verbatim and nothing added or removed; so for the empty
\* name and for "World".
GreetReturnsTemplate ==
    greetCall.valid =>
        LET n == greetCall.name
            r == greetCall.out
        IN  /\ Len(r) = 7 + Len(n) + 20
            /\ SubSeq(r, 1, 7) = <<"H", "e", "l", "l", "o", ",", " ">>
            /\ SubSeq(r, 8, 7 + Len(n)) = n
            /\ SubSeq(r, 8 + Len(n), Len(r)) =
                 <<"!", " ", "T", "h", "i", "s", " ", "i", "s", " ",
                   "f", "r", "o", "m", " ", "R", "u", "s", "t", "!">>
            /\ n = <<>> =>
                 r = <<"H", "e", "l", "l", "o", ",", " ",
                       "!", " ", "T", "h", "i", "s", " ", "i", "s", " ",
                       "f", "r", "o", "m", " ", "R", "u", "s", "t", "!">>
            /\ n = <<"W", "o", "r", "l", "d">> =>
                 r = <<"H", "e", "l", "l", "o", ",", " ",
                       "W", "o", "r", "l", "d",
                       "!", " ", "T", "h", "i", "s", " ", "i", "s", " ",
                       "f", "r", "o", "m", " ", "R", "u", "s", "t", "!">>

GreetReturnedWorld ==
    /\ greetCall.valid
    /\ greetCall.name = <<"W", "o", "r", "l", "d">>

\* C2: a resolved greet_with_delay call resolved with "Hello, " followed by
\* the name passed at its invocation followed by "! This delayed (async)
\* greeting is from Rust!".
DelayedReturnsTemplate ==
    \A c \in Resolved :
        calls[c].out =
            <<"H", "e", "l", "l", "o", ",", " ">> \o calls[c].name \o
            <<"!", " ", "T", "h", "i", "s", " ",
              "d", "e", "l", "a", "y", "e", "d", " ",
              "(", "a", "s", "y", "n", "c", ")", " ",
              "g", "r", "e", "e", "t", "i", "n", "g", " ",
              "i", "s", " ", "f", "r", "o", "m", " ", "R", "u", "s", "t", "!">>

DelayedResolvedWorld ==
    \E c \in Resolved : calls[c].name = World

\* C3: a resolved call started at least 2 seconds ago, and every call's
\* sleep is the same 2 seconds whatever its name.
ResolvesNoSoonerThanTwoSeconds ==
    \A c \in CallIds :
        /\ calls[c].pc = "done" => now - calls[c].started >= 2
        /\ calls[c].pc # "idle" => calls[c].deadline - calls[c].started = 2

ResolvedAtTwoSeconds ==
    \E c \in Resolved, d \in Resolved :
        /\ calls[c].name # calls[d].name
        /\ now - calls[c].started = 2
        /\ now - calls[d].started > 2

\* C4: a started call is never cancelled (no step takes a sleeping call
\* anywhere but to resolved, or changes its name or deadline) and it
\* eventually resolves.
StartedCallKeptUntilResolved ==
    \A c \in CallIds :
        calls[c].pc = "sleeping" =>
            /\ calls'[c].pc \in {"sleeping", "done"}
            /\ calls'[c].name = calls[c].name
            /\ calls'[c].deadline = calls[c].deadline

StartedCallResolves ==
    /\ [][StartedCallKeptUntilResolved]_vars
    /\ \A c \in CallIds : (calls[c].pc = "sleeping") ~> (calls[c].pc = "done")

AllCallsResolved ==
    /\ Resolved = CallIds
    /\ initCalls > 0
    /\ greetCall.valid

\* the name between "Hello, " and the delayed template's tail
NameIn(r) == SubSeq(r, 8, Len(r) - 45)

\* C5: concurrent calls with different names each resolve with the greeting
\* of their own name: the name inside a call's output is its own, outputs of
\* calls with different names differ, and no step of another call changes a
\* call's name or its output.
OwnNameInOutput ==
    \A c \in Resolved :
        /\ NameIn(calls[c].out) = calls[c].name
        /\ \A d \in Resolved :
               calls[c].name # calls[d].name => calls[c].out # calls[d].out

CallKeepsNameAndOutput ==
    \A c \in CallIds :
        /\ calls[c].pc # "idle" => calls'[c].name = calls[c].name
        /\ calls[c].pc = "done" => calls'[c].out = calls[c].out

NoCrossContamination ==
    /\ []OwnNameInOutput
    /\ [][CallKeepsNameAndOutput]_vars

TwoResolvedDifferentNames ==
    \E c \in Resolved, d \in Resolved :
        /\ c < d
        /\ calls[c].name # calls[d].name
        /\ calls[c].started = calls[d].started

\* C6: greet(n) after any number of init_app calls returns what greet(n)
\* returned before any init_app call.
InitAppKeepsGreet ==
    [][(/\ greetCall.valid
        /\ greetCall.inits = 0
        /\ greetCall'.valid
        /\ greetCall'.name = greetCall.name)
           => greetCall'.out = greetCall.out]_vars

GreetAfterManyInits ==
    /\ greetCall.valid
    /\ greetCall.inits >= 2

\* C7: no operation has an error outcome: every value greet returned and
\* every value a call resolved with is a text (for the empty name too, where
\* greet returns "Hello, ! This is from Rust!"), and no operation rejects an
\* input: greet accepts every name, init_app can be called again, and
\* greet_with_delay accepts every name.
NoErrorOutcome ==
    /\ greetCall.valid => IsText(greetCall.out) /\ Len(greetCall.out) >= 27
    /\ (greetCall.valid /\ greetCall.name = <<>>) =>
           greetCall.out =
               <<"H", "e", "l", "l", "o", ",", " ", "!", " ",
                 "T", "h", "i", "s", " ", "i", "s", " ",
                 "f", "r", "o", "m", " ", "R", "u", "s", "t", "!">>
    /\ \A c \in Resolved : IsText(calls[c].out) /\ Len(calls[c].out) >= 52
    /\ \A n \in Names : ENABLED CallGreet(n)
    /\ initCalls < MaxInit => ENABLED init_app
    /\ \A c \in CallIds, n \in Names :
           (/\ calls[c].pc = "idle"
            /\ \A d \in CallIds : d < c => calls[d].pc # "idle"
            /\ now + DelaySecs <= MaxTime) => ENABLED Start(c, n)

EmptyNameAccepted ==
    /\ greetCall.valid
    /\ greetCall.name = <<>>
    /\ initCalls >= 2
    /\ \E c \in Resolved : calls[c].name = <<>>

\* C8: while calls are suspended, greet can be called with every name, the
\* next greet_with_delay call can start, and a call whose sleep has elapsed
\* can resume.
SuspendedCallBlocksNothing ==
    Sleeping # {} =>
        /\ \A n \in Names : ENABLED CallGreet(n)
        /\ \A c \in CallIds, n \in Names :
               (/\ calls[c].pc = "idle"
                /\ \A d \in CallIds : d < c => calls[d].pc # "idle"
                /\ now + DelaySecs <= MaxTime) => ENABLED Start(c, n)
        /\ \A c \in Sleeping : now >= calls[c].deadline => ENABLED Resume(c)

\* a greet call and a second greet_with_delay call, both started after the
\* first greet_with_delay call, which is still suspended
GreetDoneWhileEarlierCallSleeps ==
    \E c \in Sleeping, d \in Sleeping :
        /\ calls[d].started > calls[c].started
        /\ greetCall.valid
        /\ greetCall.at > calls[c].started
        /\ now < calls[c].deadline

\* C9: a greet call is one step that changes nothing but its own return
\* value: the calls, the clock and what init_app set up stay as they were.
GreetChangesNothingElse ==
    [][greetCall' # greetCall => UNCHANGED <<calls, now, initCalls>>]_vars

GreetAmongPendingCalls ==
    /\ greetCall.valid
    /\ greetCall.inits > 0
    /\ \E c \in Sleeping : greetCall.at > calls[c].started
    /\ \E c \in Resolved : greetCall.at > calls[c].started

\* C10: an output depends on the call's name alone: resolved calls have the
\* same output exactly when they have the same name, whenever they started
\* and whatever ran in between, and so have two successive greet calls.
SameNameSameOutput ==
    \A c \in Resolved, d \in Resolved :
        (calls[c].name = calls[d].name) <=> (calls[c].out = calls[d].out)

SuccessiveGreetsAgree ==
    (greetCall.valid /\ greetCall'.valid) =>
        ((greetCall'.name = greetCall.name) <=> (greetCall'.out = greetCall.out))

OutputDependsOnNameOnly ==
    /\ []SameNameSameOutput
    /\ [][SuccessiveGreetsAgree]_vars

SameNameDifferentHistories ==
    \E c \in Resolved, d \in Resolved :
        /\ calls[c].name = calls[d].name
        /\ calls[c].started < calls[d].started
        /\ now >= calls[d].deadline
        /\ greetCall.valid
        /\ greetCall.inits > 0
        /\ greetCall.at > calls[c].started

====
